---- MODULE Spec2Model ----
(***************************************************************************)
(* Model of the sentiment dashboard component App (src/src/PERFECT1.jsx):  *)
(* the CSV load effect, aggregateData, the amCharts map-setup effect with  *)
(* its colour computation, and the view / country / details handlers.      *)
(*                                                                         *)
(* Strings are sequences of one-character strings, so that trim, parseInt, *)
(* toUpperCase and toLowerCase are computed character by character.        *)
(* Fractions are pairs <<numerator, denominator>> with denominator > 0 and *)
(* colours are 24-bit RGB integers (the value of the '#rrggbb' notation).  *)
(***************************************************************************)
EXTENDS Integers, Sequences, FiniteSets, TLC

VARIABLES
  mounted,          \* the App component is mounted
  data,             \* useState([]) - the loaded records
  error,            \* useState(null) - NoError or a message
  view,             \* useState('overall')
  selectedCountry,  \* useState('') - value of the country dropdown
  selectedDetails,  \* useState(null) - Null, Undefined or a country item
  loadDeps,         \* dependencies the load effect last ran with (NoDeps: never ran)
  mapDeps,          \* dependencies the map-setup effect last ran with
  inFlight,         \* fetch promises not yet settled
  response,         \* what the last settled fetch delivered (NoResponse before)
  fetchCount,       \* number of fetch('/geo_sentiments.csv') calls issued
  setDataCount,     \* number of setData calls made
  roots,            \* the am5 roots created on 'chartdiv' and not disposed
  cleanup,          \* root captured by the cleanup the map effect returned (0: none)
  polygons          \* polygonSeries data of the newest root (<<>> before setAll)

vars == <<mounted, data, error, view, selectedCountry, selectedDetails, loadDeps,
          mapDeps, inFlight, response, fetchCount, setDataCount, roots, cleanup,
          polygons>>

--------------------------------------------------------------------------
(* Bounds *)

\* longest CSV body (number of data rows) the fetch may deliver
MaxRows == 2

--------------------------------------------------------------------------
(* Strings *)

LowerAlpha == <<"a","b","c","d","e","f","g","h","i","j","k","l","m",
                "n","o","p","q","r","s","t","u","v","w","x","y","z">>
UpperAlpha == <<"A","B","C","D","E","F","G","H","I","J","K","L","M",
                "N","O","P","Q","R","S","T","U","V","W","X","Y","Z">>
Digits == <<"0","1","2","3","4","5","6","7","8","9">>

\* character tables: lower-case letter -> upper-case letter and back, digit -> value
UpperOf == [c \in {LowerAlpha[i] : i \in 1..26} |->
              UpperAlpha[CHOOSE i \in 1..26 : LowerAlpha[i] = c]]
LowerOf == [c \in {UpperAlpha[i] : i \in 1..26} |->
              LowerAlpha[CHOOSE i \in 1..26 : UpperAlpha[i] = c]]
ValueOf == [c \in {Digits[i] : i \in 1..10} |->
              (CHOOSE i \in 1..10 : Digits[i] = c) - 1]

toUpperCase(s) ==
  [i \in 1..Len(s) |-> IF s[i] \in DOMAIN UpperOf THEN UpperOf[s[i]] ELSE s[i]]

toLowerCase(s) ==
  [i \in 1..Len(s) |-> IF s[i] \in DOMAIN LowerOf THEN LowerOf[s[i]] ELSE s[i]]

IsSpace(c) == c = " "
IsDigit(c) == c \in DOMAIN ValueOf
DigitValue(c) == ValueOf[c]

RECURSIVE trimStart(_)
trimStart(s) == IF s # <<>> /\ IsSpace(Head(s)) THEN trimStart(Tail(s)) ELSE s

RECURSIVE trimEnd(_)
trimEnd(s) ==
  IF s # <<>> /\ IsSpace(s[Len(s)]) THEN trimEnd(SubSeq(s, 1, Len(s) - 1)) ELSE s

\* String.prototype.trim, the Papa.parse transform of every value
trim(s) == trimEnd(trimStart(s))

\* absent JavaScript values
Undefined == [undefined |-> TRUE]
Null == [null |-> TRUE]
NaN == [nan |-> TRUE]
Num(n) == [num |-> n]
IsNum(x) == DOMAIN x = {"num"}
Str(s) == [str |-> s]

RECURSIVE DigitsPrefix(_, _, _)
\* value of the longest run of decimal digits at the start of s; acc counts
\* the digits read so far in n
DigitsPrefix(s, acc, n) ==
  IF s # <<>> /\ IsDigit(Head(s))
  THEN DigitsPrefix(Tail(s), acc + 1, 10 * n + DigitValue(Head(s)))
  ELSE <<acc, n>>

\* parseInt(x, 10): undefined gives NaN; a string is read after leading
\* white space as an optional sign and the longest prefix of digits, the
\* rest is ignored; no digit gives NaN
parseInt(x) ==
  IF x = Undefined THEN NaN
  ELSE LET t == trimStart(x.str)
           neg == t # <<>> /\ Head(t) = "-"
           body == IF t # <<>> /\ Head(t) \in {"-", "+"} THEN Tail(t) ELSE t
           p == DigitsPrefix(body, 0, 0)
       IN IF p[1] = 0 THEN NaN
          ELSE Num(IF neg THEN -p[2] ELSE p[2])

--------------------------------------------------------------------------
(* Country tables *)

Peru == <<"P","e","r","u">>
peru == <<"p","e","r","u">>
Fiji == <<"F","i","j","i">>
PE == <<"P","E">>
FJ == <<"F","J">>
CL == <<"C","L">>

\* ./constants/countryCodes: country display name -> ISO id
countryNameToId == (Peru :> PE) @@ (Fiji :> FJ)

\* am5geodata_worldLow.features.map(f => f.properties.id)
geoCountries == <<CL, FJ, PE>>

\* faulty variant: the id without the countryNameToId lookup
CountryIdUpperOnly(country) == toUpperCase(country)

\* countryNameToId[row.country] || row.country.toUpperCase()
CountryId(country) ==
  IF country \in DOMAIN countryNameToId /\ countryNameToId[country] # <<>>
  THEN countryNameToId[country]
  ELSE toUpperCase(country)

--------------------------------------------------------------------------
(* CSV parsing: the second .then of the load effect *)

Country == <<"C","o","u","n","t","r","y">>
Region == <<"R","e","g","i","o","n">>
RandomValue == <<"R","a","n","d","o","m","V","a","l","u","e">>
\* 'country', 'region', 'randomvalue'
lcCountry == toLowerCase(Country)
lcRegion == toLowerCase(Region)
lcRandomValue == toLowerCase(RandomValue)

\* headers.find(h => h.toLowerCase() === name) || fallback
FindHeader(headers, name, fallback) ==
  IF \E i \in 1..Len(headers) : toLowerCase(headers[i]) = name
  THEN headers[CHOOSE i \in 1..Len(headers) :
                 /\ toLowerCase(headers[i]) = name
                 /\ \A j \in 1..(i - 1) : toLowerCase(headers[j]) # name]
  ELSE fallback

\* row[header]: Papa.parse keys each row by the header line and trims values
Field(row, header) ==
  IF header \in DOMAIN row THEN Str(trim(row[header])) ELSE Undefined

\* x || ''
OrEmpty(x) == IF x = Undefined \/ x.str = <<>> THEN <<>> ELSE x.str

\* the .map step: one CSV row to {country, region, sentiment}
RowToRecord(row, headers) ==
  LET countryHeader == FindHeader(headers, lcCountry, Country)
      regionHeader == FindHeader(headers, lcRegion, Region)
      valueHeader == FindHeader(headers, lcRandomValue, RandomValue)
      sentiment == parseInt(Field(row, valueHeader))
  IN [country |-> OrEmpty(Field(row, countryHeader)),
      region |-> OrEmpty(Field(row, regionHeader)),
      sentiment |-> IF sentiment = NaN THEN Null ELSE sentiment]

\* the .filter step
IsValid(rec) ==
  /\ rec.country # <<>>
  /\ rec.sentiment # Null
  /\ IsNum(rec.sentiment)
  /\ rec.sentiment.num >= 0
  /\ rec.sentiment.num <= 2

\* a record that passed the filter; its sentiment is a number
Loaded(rec) ==
  [country |-> rec.country, region |-> rec.region, sentiment |-> rec.sentiment.num]

RECURSIVE MapFilter(_, _)
MapFilter(rows, headers) ==
  IF rows = <<>> THEN <<>>
  ELSE LET rec == RowToRecord(Head(rows), headers)
           rest == MapFilter(Tail(rows), headers)
       IN IF IsValid(rec) THEN <<Loaded(rec)>> \o rest ELSE rest

ParseData(csv) == MapFilter(csv.rows, csv.fields)

--------------------------------------------------------------------------
(* aggregateData *)

RECURSIVE Position(_, _, _)
\* index of the entry of countryData with the given id from i on, 0 if none
Position(countryData, id, i) ==
  IF i > Len(countryData) THEN 0
  ELSE IF countryData[i].id = id THEN i
  ELSE Position(countryData, id, i + 1)

\* one forEach step: create the entry when missing, then count the sentiment
TallyRow(countryData, row) ==
  LET countryId == CountryId(row.country)
      withEntry ==
        IF Position(countryData, countryId, 1) = 0
        THEN Append(countryData,
                    [id |-> countryId, positive |-> 0, neutral |-> 0,
                     negative |-> 0, displayName |-> row.country])
        ELSE countryData
      k == Position(withEntry, countryId, 1)
  IN IF row.sentiment = 2
       THEN [withEntry EXCEPT ![k].positive = @ + 1]
     ELSE IF row.sentiment = 1
       THEN [withEntry EXCEPT ![k].neutral = @ + 1]
     ELSE IF row.sentiment = 0
       THEN [withEntry EXCEPT ![k].negative = @ + 1]
     ELSE withEntry

RECURSIVE Tally(_, _)
Tally(countryData, rows) ==
  IF rows = <<>> THEN countryData
  ELSE Tally(TallyRow(countryData, Head(rows)), Tail(rows))

\* faulty variant: total leaves out the neutral count
ToAggregateTotalSkipsNeutral(counts) ==
  [id |-> counts.id,
   displayName |-> counts.displayName,
   positive |-> counts.positive,
   neutral |-> counts.neutral,
   negative |-> counts.negative,
   total |-> counts.positive + counts.negative]

\* Object.entries(countryData).map(...): the aggregates in insertion order
ToAggregate(counts) ==
  [id |-> counts.id,
   displayName |-> counts.displayName,
   positive |-> counts.positive,
   neutral |-> counts.neutral,
   negative |-> counts.negative,
   total |-> counts.positive + counts.neutral + counts.negative]

aggregateData(d) ==
  LET countryData == Tally(<<>>, d)
  IN [i \in 1..Len(countryData) |-> ToAggregate(countryData[i])]

\* aggregated.find(item => item.id === id)
FindAggregate(aggregated, id) ==
  LET k == Position(aggregated, id, 1)
  IN IF k = 0 THEN Undefined ELSE aggregated[k]

--------------------------------------------------------------------------
(* Colours of the map-setup effect *)

Views == {"overall", "positive", "neutral", "negative"}

\* am5.color(0xd3d3d3), the fill of a country without data
Grey == \Hd3d3d3
LightGreen == \Hcce5cc
DarkGreen == \H006400
LightYellow == \Hffffcc
Olive == \Hcccc00
LightRed == \Hf5cccc
DarkRed == \H8b0000

\* parseInt(color.substring(1, 3), 16) and the two channels after it
Red(c) == (c \div 65536) % 256
Green(c) == (c \div 256) % 256
Blue(c) == c % 256

\* Math.round(a + (b - a) * factor) for the fraction factor = <<n, d>>
RoundMix(a, b, factor) ==
  (2 * (a * factor[2] + (b - a) * factor[1]) + factor[2]) \div (2 * factor[2])

\* '#' + ((1 << 24) + (r << 16) + (g << 8) + b).toString(16).slice(1)
interpolateColor(color1, color2, factor) ==
  IF factor[1] <= 0 THEN color1
  ELSE IF factor[1] >= factor[2] THEN color2
  ELSE LET r == RoundMix(Red(color1), Red(color2), factor)
           g == RoundMix(Green(color1), Green(color2), factor)
           b == RoundMix(Blue(color1), Blue(color2), factor)
       IN ((16777216 + r * 65536 + g * 256 + b) % 16777216)

\* value is a fraction <<n, d>>; 0.66 and 0.34 and 0.33 are 66/100, 34/100, 33/100
getGradientColor(value, v) ==
  IF v = "positive" THEN interpolateColor(LightGreen, DarkGreen, value)
  ELSE IF v = "neutral" THEN interpolateColor(LightYellow, Olive, value)
  ELSE IF v = "negative" THEN interpolateColor(LightRed, DarkRed, value)
  ELSE IF 100 * value[1] >= 66 * value[2]
    THEN interpolateColor(Olive, DarkGreen,
                          <<100 * value[1] - 66 * value[2], 34 * value[2]>>)
  ELSE IF 100 * value[1] >= 33 * value[2]
    THEN Olive
  ELSE interpolateColor(DarkRed, Olive, <<100 * value[1], 33 * value[2]>>)

\* faulty variant: the overall score leaves out the negative count
getColorValueNoNegative(countryData, v) ==
  IF countryData = Undefined \/ countryData.total = 0 THEN <<0, 1>>
  ELSE IF v = "positive" THEN <<countryData.positive, countryData.total>>
  ELSE IF v = "neutral" THEN <<countryData.neutral, countryData.total>>
  ELSE IF v = "negative" THEN <<countryData.negative, countryData.total>>
  ELSE LET score == <<2 * countryData.positive + countryData.neutral,
                      2 * countryData.total>>
       IN <<score[1] + score[2], 2 * score[2]>>

\* a fraction <<n, d>>; 0 is <<0, 1>>
getColorValue(countryData, v) ==
  IF countryData = Undefined \/ countryData.total = 0 THEN <<0, 1>>
  ELSE IF v = "positive" THEN <<countryData.positive, countryData.total>>
  ELSE IF v = "neutral" THEN <<countryData.neutral, countryData.total>>
  ELSE IF v = "negative" THEN <<countryData.negative, countryData.total>>
  ELSE LET score == <<2 * countryData.positive + countryData.neutral
                        - 2 * countryData.negative,
                      2 * countryData.total>>
       IN <<score[1] + score[2], 2 * score[2]>>   \* (score + 1) / 2

\* idToCountryName[id] || id
DisplayNameOf(id) ==
  IF \E name \in DOMAIN countryNameToId : countryNameToId[name] = id
  THEN CHOOSE name \in DOMAIN countryNameToId : countryNameToId[name] = id
  ELSE id

\* one element of seriesData
SeriesItem(id, aggregated, v) ==
  LET countryData == FindAggregate(aggregated, id)
  IN IF countryData # Undefined
     THEN LET sentimentScore == getColorValue(countryData, v)
          IN [id |-> id,
              displayName |-> countryData.displayName,
              positive |-> countryData.positive,
              neutral |-> countryData.neutral,
              negative |-> countryData.negative,
              total |-> countryData.total,
              value |-> sentimentScore,
              fill |-> getGradientColor(sentimentScore, v),
              interactive |-> TRUE]
     ELSE [id |-> id,
           displayName |-> DisplayNameOf(id),
           positive |-> 0,
           neutral |-> 0,
           negative |-> 0,
           total |-> 0,
           value |-> <<0, 1>>,
           fill |-> Grey,
           interactive |-> FALSE]

seriesData(aggregated, v) ==
  [i \in 1..Len(geoCountries) |-> SeriesItem(geoCountries[i], aggregated, v)]

--------------------------------------------------------------------------
(* What the fetch of /geo_sentiments.csv may deliver *)

\* header lines of the CSV files considered: the documented one, one in other
\* letter case, one without the RandomValue column
DocumentedHeader == <<Country, Region, RandomValue>>
HeaderLines ==
  { DocumentedHeader,
    <<lcCountry, toUpperCase(Region), lcRandomValue>>,
    <<Country, Region>> }

Asia == <<"A","s","i","a">>

\* raw CSV lines considered: country, region and RandomValue cells
RawLines ==
  { <<Peru, Asia, <<"2">> >>,
    <<PE, Asia, <<"0">> >>,
    <<peru, Asia, <<" ", "1", " ">> >>,
    <<Fiji, Asia, <<"1", ".", "5">> >>,
    <<Peru, Asia, <<"3">> >>,
    << <<" ">>, Asia, <<"2">> >> }

\* sequences over S of length at most n
SeqUpTo(S, n) == UNION { [1..k -> S] : k \in 0..n }

\* Papa.parse(csv, {header: true}): each line as an object keyed by the header line
RowObject(fields, line) == [h \in {fields[i] : i \in 1..Len(fields)} |->
                              line[CHOOSE i \in 1..Len(fields) : fields[i] = h]]

ParsedCsv(fields, lines) ==
  [fields |-> fields, rows |-> [i \in 1..Len(lines) |-> RowObject(fields, lines[i])]]

\* an empty body: Papa.parse reports no header fields (parsed.meta.fields undefined)
EmptyCsv == [rows |-> <<>>]
HasFields(csv) == "fields" \in DOMAIN csv

NoResponse == [kind |-> "none"]

Responses ==
  { [kind |-> "rejected"] }                          \* fetch rejects (network)
  \cup { [kind |-> "http", ok |-> FALSE] }           \* !response.ok
  \cup { [kind |-> "http", ok |-> TRUE, csv |-> EmptyCsv] }
  \cup UNION { { [kind |-> "http", ok |-> TRUE, csv |-> ParsedCsv(f, l)] :
                   l \in SeqUpTo(RawLines, IF f = DocumentedHeader THEN MaxRows ELSE 1) } :
                 f \in HeaderLines }

--------------------------------------------------------------------------
(* The component *)

Err(message) == [message |-> message]
NoValidData == Err("No valid data found. Check CSV format (headers: Country,Region,RandomValue).")
FailedToLoad == Err("Failed to load data")
FailedToInitMap == Err("Failed to initialize map")

NoDeps == [never |-> TRUE]

\* faulty variant: the load effect depends on view
LoadEffectDepsView == [deps |-> <<view>>]

\* dependency list of the load effect: []
LoadEffectDeps == [deps |-> <<>>]

\* faulty variant: the map effect depends on data alone
MapEffectDepsDataOnly(d, v) == [deps |-> <<d>>]

\* dependency list of the map-setup effect: [data, view]
MapEffectDeps(d, v) == [deps |-> <<d, v>>]

Init ==
  /\ mounted = TRUE
  /\ data = <<>>
  /\ error = Null
  /\ view = "overall"
  /\ selectedCountry = <<>>
  /\ selectedDetails = Null
  /\ loadDeps = NoDeps
  /\ mapDeps = NoDeps
  /\ inFlight = 0
  /\ response = NoResponse
  /\ fetchCount = 0
  /\ setDataCount = 0
  /\ roots = {}
  /\ cleanup = 0
  /\ polygons = <<>>

\* an effect whose dependencies changed since it last ran is still to run
LoadEffectPending == loadDeps # LoadEffectDeps
MapEffectPending == mapDeps # MapEffectDeps(data, view)

\* the render branches: error message, loading text, dashboard
Render ==
  IF error # Null THEN "error"
  ELSE IF Len(data) = 0 THEN "loading"
  ELSE "dashboard"

\* the dashboard is on screen and React has flushed the effects of the last render
DashboardIdle ==
  /\ mounted
  /\ Render = "dashboard"
  /\ ~LoadEffectPending
  /\ ~MapEffectPending

\* the load effect: fetch('/geo_sentiments.csv')
LoadEffect ==
  /\ mounted
  /\ LoadEffectPending
  /\ loadDeps' = LoadEffectDeps
  /\ fetchCount' = fetchCount + 1
  /\ inFlight' = inFlight + 1
  /\ UNCHANGED <<mounted, data, error, view, selectedCountry, selectedDetails,
                 mapDeps, response, setDataCount, roots, cleanup, polygons>>

\* faulty variant: failures are swallowed and an empty result is stored
LoadOutcomeSwallow(resp) ==
  IF resp.kind = "http" /\ resp.ok /\ HasFields(resp.csv)
  THEN [data |-> ParseData(resp.csv), error |-> error,
        setData |-> Len(ParseData(resp.csv)) # 0]
  ELSE [data |-> data, error |-> error, setData |-> FALSE]

\* faulty variant: a CSV without valid rows is stored and no error is set
LoadOutcomeStoresEmpty(resp) ==
  IF resp.kind = "http" /\ resp.ok /\ HasFields(resp.csv)
  THEN [data |-> ParseData(resp.csv), error |-> error, setData |-> TRUE]
  ELSE [data |-> data, error |-> FailedToLoad, setData |-> FALSE]

\* the promise chain of the load effect: the new values of data and error and
\* whether setData was called
LoadOutcome(resp) ==
  IF resp.kind = "rejected" THEN            \* fetch rejected: .catch
    [data |-> data, error |-> FailedToLoad, setData |-> FALSE]
  ELSE IF ~resp.ok THEN                     \* throw new Error(HTTP error): .catch
    [data |-> data, error |-> FailedToLoad, setData |-> FALSE]
  ELSE IF ~HasFields(resp.csv) THEN  \* headers.find throws: .catch
    [data |-> data, error |-> FailedToLoad, setData |-> FALSE]
  ELSE LET parsed == ParseData(resp.csv)
       IN IF Len(parsed) = 0
          THEN [data |-> data, error |-> NoValidData, setData |-> FALSE]
          ELSE [data |-> parsed, error |-> error, setData |-> TRUE]

\* the fetch settles; state setters of an unmounted component do nothing
FetchSettle(resp) ==
  /\ inFlight > 0
  /\ inFlight' = inFlight - 1
  /\ IF mounted
     THEN /\ response' = resp
          /\ data' = LoadOutcome(resp).data
          /\ error' = LoadOutcome(resp).error
          /\ setDataCount' = setDataCount + (IF LoadOutcome(resp).setData THEN 1 ELSE 0)
     ELSE UNCHANGED <<response, data, error, setDataCount>>
  /\ UNCHANGED <<mounted, view, selectedCountry, selectedDetails, loadDeps,
                 mapDeps, fetchCount, roots, cleanup, polygons>>

\* root.dispose() of the root a cleanup captured
Dispose(rs, r) == rs \ {r}

\* am5.Root.new('chartdiv'): a root distinct from the undisposed ones
NewRoot(rs) == CHOOSE r \in 1..(Cardinality(rs) + 1) : r \notin rs

\* how a run of the map setup may end: all of it, am5.Root.new throwing, or a
\* later call throwing before or after polygonSeries.data.setAll
SetupOutcomes == {"done", "rootThrows", "throwsBeforeSetAll", "throwsAfterSetAll"}

\* the map-setup effect: the cleanup of the previous run, then the setup
MapEffect(outcome) ==
  /\ mounted
  /\ MapEffectPending
  /\ mapDeps' = MapEffectDeps(data, view)
  /\ LET disposed == Dispose(roots, cleanup)
     IN IF Len(data) = 0
        THEN /\ roots' = disposed
             /\ cleanup' = 0
             /\ polygons' = IF cleanup = 0 THEN polygons ELSE <<>>
             /\ UNCHANGED error
        ELSE CASE outcome = "done" ->
                    /\ roots' = disposed \cup {NewRoot(disposed)}
                    /\ cleanup' = NewRoot(disposed)
                    /\ polygons' = seriesData(aggregateData(data), view)
                    /\ UNCHANGED error
               [] outcome = "rootThrows" ->
                    /\ roots' = disposed
                    /\ cleanup' = 0
                    /\ polygons' = <<>>
                    /\ error' = FailedToInitMap
               [] outcome = "throwsBeforeSetAll" ->
                    /\ roots' = disposed \cup {NewRoot(disposed)}
                    /\ cleanup' = 0
                    /\ polygons' = <<>>
                    /\ error' = FailedToInitMap
               [] outcome = "throwsAfterSetAll" ->
                    /\ roots' = disposed \cup {NewRoot(disposed)}
                    /\ cleanup' = 0
                    /\ polygons' = seriesData(aggregateData(data), view)
                    /\ error' = FailedToInitMap
  /\ UNCHANGED <<mounted, data, view, selectedCountry, selectedDetails, loadDeps,
                 inFlight, response, fetchCount, setDataCount>>

\* faulty variant: the view select is always rendered and clears the error
ChangeViewClearsError(v) ==
  /\ mounted
  /\ v # view
  /\ view' = v
  /\ error' = Null
  /\ UNCHANGED <<mounted, data, selectedCountry, selectedDetails, loadDeps,
                 mapDeps, inFlight, response, fetchCount, setDataCount, roots,
                 cleanup, polygons>>

\* onChange of the view select: setView(e.target.value)
ChangeView(v) ==
  /\ DashboardIdle
  /\ v # view
  /\ view' = v
  /\ UNCHANGED <<mounted, data, error, selectedCountry, selectedDetails, loadDeps,
                 mapDeps, inFlight, response, fetchCount, setDataCount, roots,
                 cleanup, polygons>>

\* the option values of the country select
CountryOptions == {<<>>} \cup {CountryId(data[i].country) : i \in 1..Len(data)}

\* onChange of the country select
SelectCountry(value) ==
  /\ DashboardIdle
  /\ value \in CountryOptions
  /\ selectedDetails' = FindAggregate(aggregateData(data), value)
  /\ selectedCountry' = value
  /\ UNCHANGED <<mounted, data, error, view, loadDeps, mapDeps, inFlight, response,
                 fetchCount, setDataCount, roots, cleanup, polygons>>

\* the click handler of the map polygons, on the polygon of geoCountries[i]
ClickPolygon(i) ==
  /\ DashboardIdle
  /\ cleanup # 0
  /\ i \in DOMAIN polygons
  /\ polygons[i].interactive
  /\ selectedDetails' = polygons[i]
  /\ selectedCountry' = polygons[i].id
  /\ UNCHANGED <<mounted, data, error, view, loadDeps, mapDeps, inFlight, response,
                 fetchCount, setDataCount, roots, cleanup, polygons>>

Truthy(x) == x # Null /\ x # Undefined

\* faulty variant: the dropdown is not reset
handleCloseDetailsKeepsCountry ==
  /\ DashboardIdle
  /\ Truthy(selectedDetails)
  /\ selectedDetails' = Null
  /\ UNCHANGED <<mounted, data, error, view, selectedCountry, loadDeps, mapDeps,
                 inFlight, response, fetchCount, setDataCount, roots, cleanup,
                 polygons>>

\* the close button of the details panel, rendered when selectedDetails is truthy
handleCloseDetails ==
  /\ DashboardIdle
  /\ Truthy(selectedDetails)
  /\ selectedDetails' = Null
  /\ selectedCountry' = <<>>
  /\ UNCHANGED <<mounted, data, error, view, loadDeps, mapDeps, inFlight, response,
                 fetchCount, setDataCount, roots, cleanup, polygons>>

\* component teardown: React runs the cleanup the map effect returned
Unmount ==
  /\ mounted
  /\ mounted' = FALSE
  /\ roots' = Dispose(roots, cleanup)
  /\ cleanup' = 0
  /\ UNCHANGED <<data, error, view, selectedCountry, selectedDetails, loadDeps,
                 mapDeps, inFlight, response, fetchCount, setDataCount, polygons>>

Next ==
  \/ LoadEffect
  \/ \E resp \in Responses : FetchSettle(resp)
  \/ \E outcome \in SetupOutcomes : MapEffect(outcome)
  \/ \E v \in Views : ChangeView(v)
  \/ \E value \in CountryOptions : SelectCountry(value)
  \/ \E i \in 1..Len(geoCountries) : ClickPolygon(i)
  \/ handleCloseDetails
  \/ Unmount

Spec == Init /\ [][Next]_vars

--------------------------------------------------------------------------
(* Properties *)

Aggregates == aggregateData(data)

\* C1: in every per-country aggregate of the loaded records, positive, neutral
\* and negative are non-negative integers and their sum is total
C1_CountsSumToTotal ==
  LET aggregated == Aggregates
  IN \A i \in 1..Len(aggregated) :
       LET a == aggregated[i]
       IN /\ a.positive \in Nat
          /\ a.neutral \in Nat
          /\ a.negative \in Nat
          /\ a.positive + a.neutral + a.negative = a.total

\* an aggregate that tallied records of all three sentiments is on the map
C1_Witness ==
  /\ cleanup # 0
  /\ \E i \in 1..Len(Aggregates) :
       /\ Aggregates[i].neutral >= 1
       /\ Aggregates[i].total >= 2

\* the fetch failed, or the CSV it delivered has no valid row
NoValidRow(csv) ==
  \/ ~HasFields(csv)
  \/ \A i \in 1..Len(csv.rows) : ~IsValid(RowToRecord(csv.rows[i], csv.fields))

LoadFailed ==
  \/ response.kind = "rejected"
  \/ response.kind = "http" /\ ~response.ok
  \/ response.kind = "http" /\ response.ok /\ NoValidRow(response.csv)

\* C2: when the fetch fails (rejection or non-OK response) or the CSV has no
\* valid row, error is non-null, data is still empty and the error message
\* is what is rendered
C2_FailureShowsError ==
  (error # Null /\ data = <<>> /\ Render = "error") \/ ~LoadFailed

\* a CSV with rows, none of them valid, was delivered
C2_Witness ==
  /\ response.kind = "http"
  /\ response.ok
  /\ HasFields(response.csv)
  /\ Len(response.csv.rows) = MaxRows
  /\ error = NoValidData

\* C3: once error is non-null it is non-null in every later state
C3_ErrorAbsorbing == [][error # Null => error' # Null]_vars

\* the map-setup effect set the error and the component lived on to teardown
C3_Witness ==
  /\ error = FailedToInitMap
  /\ ~mounted
  /\ view # "overall"

\* C4: the CSV fetch is issued exactly once (never again after a view change,
\* a selection, a close or an error) and data is assigned at most once
C4_SingleFetch ==
  /\ fetchCount <= 1
  /\ setDataCount <= 1
  /\ (~LoadEffectPending => fetchCount = 1)
  /\ (data # <<>> => setDataCount = 1)

\* the view was changed and a country selected after the data was loaded
C4_Witness ==
  /\ fetchCount = 1
  /\ setDataCount = 1
  /\ view # "overall"
  /\ Truthy(selectedDetails)

\* the text s is an integer numeral: an optional sign, then digits only
IsIntegerNumeral(s) ==
  LET body == IF s # <<>> /\ Head(s) \in {"-", "+"} THEN Tail(s) ELSE s
  IN /\ body # <<>>
     /\ \A i \in 1..Len(body) : IsDigit(body[i])

\* the Country and RandomValue fields of a CSV row, under the headers of the file
CountryField(row, headers) ==
  Field(row, FindHeader(headers, lcCountry, Country))
ValueField(row, headers) ==
  Field(row, FindHeader(headers, lcRandomValue, RandomValue))

\* the row is one the documented format accepts
AcceptedRow(row, headers) ==
  /\ CountryField(row, headers) # Undefined
  /\ CountryField(row, headers).str # <<>>
  /\ ValueField(row, headers) # Undefined
  /\ IsIntegerNumeral(ValueField(row, headers).str)
  /\ parseInt(ValueField(row, headers)).num \in {0, 1, 2}

\* C5: a CSV row is kept in data if and only if its Country field is non-empty
\* and its RandomValue field is an integer in {0,1,2}; kept records have
\* sentiment in {0,1,2}
C5_KeptIffIntegerField ==
  (response.kind = "http" /\ response.ok /\ HasFields(response.csv)) =>
    LET csv == response.csv
        Accepted(row) == AcceptedRow(row, csv.fields)
        kept == SelectSeq(csv.rows, Accepted)
    IN /\ Len(data) = Len(kept)
       /\ \A i \in 1..Len(data) :
            /\ data[i].country = CountryField(kept[i], csv.fields).str
            /\ data[i].sentiment \in {0, 1, 2}

\* the map of the current root is on screen and no effect is still to run
ChartShown ==
  /\ mounted
  /\ Render = "dashboard"
  /\ ~MapEffectPending

\* C6: once the map-setup effect has run for the current data and view, the map
\* of a live root shows, for every map country with data, the colour computed
\* from that country's aggregate and the currently selected view
C6_MapShowsCurrentView ==
  ChartShown =>
    /\ cleanup \in roots
    /\ Len(polygons) = Len(geoCountries)
    /\ LET aggregated == Aggregates IN \A i \in 1..Len(geoCountries) :
         LET a == FindAggregate(aggregated, geoCountries[i])
         IN /\ polygons[i].id = geoCountries[i]
            /\ a # Undefined =>
                 polygons[i].fill = getGradientColor(getColorValue(a, view), view)

\* the view was changed and the map was set up again, with a coloured country
C6_Witness ==
  /\ ChartShown
  /\ view = "negative"
  /\ \E i \in 1..Len(polygons) : polygons[i].interactive /\ polygons[i].negative >= 1

RECURSIVE SumTotals(_)
SumTotals(aggregated) ==
  IF aggregated = <<>> THEN 0 ELSE Head(aggregated).total + SumTotals(Tail(aggregated))

\* the aggregate id the records of a country are to be counted under
ExpectedId(country) ==
  IF country \in DOMAIN countryNameToId
  THEN countryNameToId[country]
  ELSE toUpperCase(country)

\* C7: every loaded record is counted in exactly one aggregate, the one whose id
\* is countryNameToId[country] or else the upper-cased country; aggregate ids are
\* pairwise distinct and the totals sum to the number of loaded records
C7_TallyLosesNoRow ==
  LET aggregated == Aggregates
      expected == [k \in 1..Len(data) |-> ExpectedId(data[k].country)]
  IN /\ \A i, j \in 1..Len(aggregated) : i # j => aggregated[i].id # aggregated[j].id
     /\ SumTotals(aggregated) = Len(data)
     /\ \A k \in 1..Len(data) :
          Cardinality({i \in 1..Len(aggregated) : aggregated[i].id = expected[k]}) = 1
     /\ \A i \in 1..Len(aggregated) :
          aggregated[i].total =
            Cardinality({k \in 1..Len(data) : expected[k] = aggregated[i].id})

\* records of two differently spelled countries were tallied into one aggregate
C7_Witness ==
  /\ Len(data) = 2
  /\ data[1].country # data[2].country
  /\ Len(Aggregates) = 1
  /\ cleanup # 0

\* an aggregate without any record
EmptyAggregate ==
  [id |-> CL, displayName |-> CL, positive |-> 0, neutral |-> 0, negative |-> 0,
   total |-> 0]

\* the fraction f = <<n, d>> is the fraction a / b
SameFraction(f, a, b) == f[2] > 0 /\ f[1] * b = a * f[2]

\* C8: the colour value of getColorValue is between 0 and 1; it is 0 without
\* data or with total 0, count / total in the positive, neutral and negative
\* views, and (4 * positive + 3 * neutral) / (4 * total) in the overall view
C8_ColorValueInUnitRange ==
  /\ \A v \in Views :
       /\ getColorValue(Undefined, v) = <<0, 1>>
       /\ getColorValue(EmptyAggregate, v) = <<0, 1>>
  /\ LET aggregated == Aggregates IN \A i \in 1..Len(aggregated) :
       LET a == aggregated[i]
       IN /\ \A v \in Views :
               /\ getColorValue(a, v)[2] > 0
               /\ 0 <= getColorValue(a, v)[1]
               /\ getColorValue(a, v)[1] <= getColorValue(a, v)[2]
          /\ SameFraction(getColorValue(a, "positive"), a.positive, a.total)
          /\ SameFraction(getColorValue(a, "neutral"), a.neutral, a.total)
          /\ SameFraction(getColorValue(a, "negative"), a.negative, a.total)
          /\ SameFraction(getColorValue(a, "overall"),
                          4 * a.positive + 3 * a.neutral, 4 * a.total)
          /\ SameFraction(getColorValue(a, "overall"),
                          (2 * a.positive + a.neutral - 2 * a.negative) + 2 * a.total,
                          2 * (2 * a.total))
  /\ \A i \in 1..Len(polygons) :
       /\ 0 <= polygons[i].value[1]
       /\ polygons[i].value[1] <= polygons[i].value[2]

\* the overall view is on the map with a country of mixed sentiment
C8_Witness ==
  /\ ChartShown
  /\ view = "overall"
  /\ \E i \in 1..Len(polygons) :
       /\ polygons[i].negative >= 1
       /\ polygons[i].positive >= 1
       /\ polygons[i].value = <<4, 8>>

\* C9: selectedDetails is non-empty exactly when selectedCountry is not '', and
\* then selectedDetails.id is selectedCountry and the id of an aggregate of the
\* loaded data
C9_SelectionConsistent ==
  /\ Truthy(selectedDetails) <=> selectedCountry # <<>>
  /\ Truthy(selectedDetails) =>
       /\ selectedDetails.id = selectedCountry
       /\ \E i \in 1..Len(Aggregates) : Aggregates[i].id = selectedDetails.id

\* a country was picked in the dropdown after another was clicked on the map
C9_Witness ==
  /\ Truthy(selectedDetails)
  /\ "fill" \notin DOMAIN selectedDetails
  /\ selectedCountry \notin {geoCountries[i] : i \in 1..Len(geoCountries)}
  /\ view # "overall"

\* C10: every chart root the map-setup effect created is disposed by teardown,
\* also when the setup threw after creating it, and at most one root is
\* undisposed at any time
C10_RootsDisposed ==
  /\ Cardinality(roots) <= 1
  /\ ~mounted => roots = {}

\* the loading text is what the component has to show: data empty, error null
Loading == data = <<>> /\ error = Null

\* the single fetch has settled and its handlers updated the component
FetchSettled == fetchCount = 1 /\ inFlight = 0 /\ response # NoResponse

\* C11: once the fetch has settled, with success or failure, the component has
\* non-empty data or a non-null error, and once out of the loading state it
\* never returns to it
C11_LoadingOnlyWhileUnsettled ==
  /\ [](FetchSettled => ~Loading)
  /\ [][~Loading => ~Loading']_vars

\* the fetch settled with data, the dashboard was used and then torn down
C11_Witness ==
  /\ FetchSettled
  /\ data # <<>>
  /\ error = Null
  /\ view # "overall"
  /\ Truthy(selectedDetails)
  /\ ~mounted

====
